---- MODULE Spec2Model ----
(***************************************************************************)
(* Filename synthesis and uniqueness engine of the artifact downloader.    *)
(*                                                                         *)
(* A JavaScript string is modelled as a sequence of one-character strings, *)
(* so that splitting, sanitizing, searching for the last '/' or '.' and    *)
(* concatenation are computed character by character as the code does.     *)
(***************************************************************************)
EXTENDS Integers, Sequences, FiniteSets, TLC

(***************************************************************************)
(* Bounds of the model.                                                    *)
(***************************************************************************)
MaxTitleLen == 2
MaxCalls == 2
MaxNameTitleLen == 3
MaxPrior == 2
MaxResolveLen == 3
MaxReplayLen == 2
MaxComponentLen == 4
MaxLanguageLen == 3
MaxFlatCalls == 3
MaxMessages == 3

(***************************************************************************)
(* State.                                                                  *)
(***************************************************************************)
VARIABLES
  allocated,      \* usedNames, the allocation set of the run
  directoryMode,  \* useDirectoryStructure, chosen once per run
  initialNames,   \* the contents of the set when the run started
  calls,          \* number of getUniqueFileName calls made
  returned,       \* the set of file names returned so far
  last,           \* index and outcome of the latest getUniqueFileName call
  artifact,       \* the artifact a single naming call is made for
  resolve,        \* the locals of a running makeUnique / makeUniqueWithArrays
  composed,       \* arguments and result of one path composition
  replay,         \* an artifact sequence named in two successive runs
  sanitizer,      \* a component and what sanitizeComponent made of it
  lookup,         \* a language value and what getFileExtension returned
  attempt,        \* a getUniqueFileName call with arbitrary argument values
  constructed,    \* arguments and result of one constructFilePath call
  walk,           \* payload, call stack and counters of a processMessage walk
  log             \* the zip.file calls made so far, in order

vars == <<allocated, directoryMode, initialNames, calls, returned, last,
          artifact, resolve, composed, replay, sanitizer, lookup, attempt,
          constructed, walk, log>>

(***************************************************************************)
(* Characters.                                                             *)
(***************************************************************************)
LowerLetters ==
  {"a","b","c","d","e","f","g","h","i","j","k","l","m",
   "n","o","p","q","r","s","t","u","v","w","x","y","z"}
UpperLetters ==
  {"A","B","C","D","E","F","G","H","I","J","K","L","M",
   "N","O","P","Q","R","S","T","U","V","W","X","Y","Z"}
Digits == {"0","1","2","3","4","5","6","7","8","9"}

\* The regular expression class \w of JavaScript: [A-Za-z0-9_].
WordChars == LowerLetters \cup UpperLetters \cup Digits \cup {"_"}

\* The characters the class [^\w\-._] does NOT match.
KeptChars == WordChars \cup {"-", ".", "_"}

(***************************************************************************)
(* String primitives of JavaScript used by the code.                       *)
(***************************************************************************)
\* `${n}` for a non-negative integer n: its decimal digits.
DigitChar(d) == <<"0","1","2","3","4","5","6","7","8","9">>[d + 1]

RECURSIVE NumberToString(_)
NumberToString(n) ==
  IF n < 10 THEN <<DigitChar(n)>>
            ELSE NumberToString(n \div 10) \o <<DigitChar(n % 10)>>

\* String.prototype.lastIndexOf(ch), 0-based, -1 when absent.
RECURSIVE LastIndexFrom(_, _, _)
LastIndexFrom(s, ch, i) ==
  IF i = 0 THEN -1
  ELSE IF s[i] = ch THEN i - 1
  ELSE LastIndexFrom(s, ch, i - 1)

lastIndexOf(s, ch) == LastIndexFrom(s, ch, Len(s))

\* String.prototype.substring(from, to) and substring(from), 0-based.
substring(s, from, to) == SubSeq(s, from + 1, to)
substringFrom(s, from) == SubSeq(s, from + 1, Len(s))

\* String.prototype.split on a set of one-character separators: always at
\* least one part ("".split(sep) is [""]).
RECURSIVE SplitFrom(_, _, _, _)
SplitFrom(s, seps, i, cur) ==
  IF i > Len(s) THEN <<cur>>
  ELSE IF s[i] \in seps THEN <<cur>> \o SplitFrom(s, seps, i + 1, <<>>)
  ELSE SplitFrom(s, seps, i + 1, Append(cur, s[i]))

split(s, seps) == SplitFrom(s, seps, 1, <<>>)

\* Array.prototype.join(sep); sep is a string.
RECURSIVE join(_, _)
join(parts, sep) ==
  IF Len(parts) = 0 THEN <<>>
  ELSE IF Len(parts) = 1 THEN parts[1]
  ELSE parts[1] \o sep \o join(Tail(parts), sep)

\* Array.prototype.pop(): the array without its last element.
ButLast(parts) == SubSeq(parts, 1, Len(parts) - 1)

startsWith(s, p) == Len(s) >= Len(p) /\ SubSeq(s, 1, Len(p)) = p
endsWith(s, p) ==
  Len(s) >= Len(p) /\ SubSeq(s, Len(s) - Len(p) + 1, Len(s)) = p
Contains(s, ch) == \E i \in 1..Len(s) : s[i] = ch

\* All strings over an alphabet up to a length.
RECURSIVE StringsUpTo(_, _)
StringsUpTo(alphabet, n) ==
  IF n = 0 THEN {<<>>}
  ELSE LET shorter == StringsUpTo(alphabet, n - 1)
       IN  shorter \cup {Append(s, c) : s \in shorter, c \in alphabet}

(***************************************************************************)
(* JavaScript values that may be passed where a string is expected.        *)
(***************************************************************************)
JSString(s) == [t |-> "string", s |-> s]
JSNull == [t |-> "null", s |-> <<>>]
JSUndefined == [t |-> "undefined", s |-> <<>>]
JSNumber == [t |-> "number", s |-> <<>>]

(***************************************************************************)
(* ExtensionResolver: getFileExtension.                                    *)
(***************************************************************************)
UpperSeq ==
  <<"A","B","C","D","E","F","G","H","I","J","K","L","M",
    "N","O","P","Q","R","S","T","U","V","W","X","Y","Z">>
LowerSeq ==
  <<"a","b","c","d","e","f","g","h","i","j","k","l","m",
    "n","o","p","q","r","s","t","u","v","w","x","y","z">>

\* String.prototype.toLowerCase, one character and a whole string.
LowerChar(c) ==
  IF c \in UpperLetters
  THEN LowerSeq[CHOOSE i \in 1..26 : UpperSeq[i] = c]
  ELSE c
toLowerCase(s) == [i \in 1..Len(s) |-> LowerChar(s[i])]

DefaultExtension == <<".","t","x","t">>

\* The fixed table: pairs <<language, extension>>.
languageToExt ==
  { <<<<"j","a","v","a","s","c","r","i","p","t">>, <<".","j","s">>>>,
    <<<<"t","y","p","e","s","c","r","i","p","t">>, <<".","t","s">>>>,
    <<<<"h","t","m","l">>, <<".","h","t","m","l">>>>,
    <<<<"c","s","s">>, <<".","c","s","s">>>>,
    <<<<"p","y","t","h","o","n">>, <<".","p","y">>>>,
    <<<<"j","a","v","a">>, <<".","j","a","v","a">>>>,
    <<<<"c">>, <<".","c">>>>,
    <<<<"c","p","p">>, <<".","c","p","p">>>>,
    <<<<"r","u","b","y">>, <<".","r","b">>>>,
    <<<<"p","h","p">>, <<".","p","h","p">>>>,
    <<<<"s","w","i","f","t">>, <<".","s","w","i","f","t">>>>,
    <<<<"g","o">>, <<".","g","o">>>>,
    <<<<"r","u","s","t">>, <<".","r","s">>>>,
    <<<<"s","h","e","l","l">>, <<".","s","h">>>>,
    <<<<"s","q","l">>, <<".","s","q","l">>>>,
    <<<<"k","o","t","l","i","n">>, <<".","k","t">>>>,
    <<<<"s","c","a","l","a">>, <<".","s","c","a","l","a">>>>,
    <<<<"r">>, <<".","r">>>>,
    <<<<"m","a","t","l","a","b">>, <<".","m">>>> }

\* Variant: the table is searched with the tag as it is written.
getFileExtensionCaseSensitive(language) ==
  IF language.t # "string" \/ language.s = <<>> THEN DefaultExtension
  ELSE LET hits == {e \in languageToExt : e[1] = language.s}
       IN  IF hits = {} THEN DefaultExtension
           ELSE (CHOOSE e \in hits : TRUE)[2]

\* Variant: a tag that is not in the table gets no extension at all.
getFileExtensionNoDefault(language) ==
  IF language.t # "string" \/ language.s = <<>> THEN DefaultExtension
  ELSE LET key == toLowerCase(language.s)
           hits == {e \in languageToExt : e[1] = key}
       IN  IF hits = {} THEN <<>>
           ELSE (CHOOSE e \in hits : TRUE)[2]

\* language is a JavaScript value: a string, null or undefined.
getFileExtension(language) ==
  IF language.t # "string" \/ language.s = <<>> THEN DefaultExtension
  ELSE LET key == toLowerCase(language.s)
           hits == {e \in languageToExt : e[1] = key}
       IN  IF hits = {} THEN DefaultExtension
           ELSE (CHOOSE e \in hits : TRUE)[2]

(***************************************************************************)
(* Sanitizer: sanitizeComponent, component.replace(/[^\w\-._]+/g, "_").    *)
(* Every maximal run of characters outside KeptChars becomes one "_".      *)
(***************************************************************************)
RECURSIVE SanitizeFrom(_, _, _)
SanitizeFrom(component, i, inRun) ==
  IF i > Len(component) THEN <<>>
  ELSE IF component[i] \in KeptChars
       THEN <<component[i]>> \o SanitizeFrom(component, i + 1, FALSE)
       ELSE IF inRun THEN SanitizeFrom(component, i + 1, TRUE)
            ELSE <<"_">> \o SanitizeFrom(component, i + 1, TRUE)

\* Variant: the pattern without its '+': every character outside KeptChars
\* becomes a "_" of its own.
sanitizeComponentPerChar(component) ==
  [i \in 1..Len(component) |->
     IF component[i] \in KeptChars THEN component[i] ELSE "_"]

\* Variant: the pattern without its 'g' flag: only the first run is
\* replaced.  state is "before", "in" or "after" that run.
RECURSIVE FirstRunFrom(_, _, _)
FirstRunFrom(component, i, state) ==
  IF i > Len(component) THEN <<>>
  ELSE IF component[i] \in KeptChars
       THEN <<component[i]>>
              \o FirstRunFrom(component, i + 1,
                              IF state = "before" THEN "before" ELSE "after")
       ELSE IF state = "before"
            THEN <<"_">> \o FirstRunFrom(component, i + 1, "in")
            ELSE IF state = "in" THEN FirstRunFrom(component, i + 1, "in")
                 ELSE <<component[i]>> \o FirstRunFrom(component, i + 1, "after")

sanitizeComponentFirstRunOnly(component) == FirstRunFrom(component, 1, "before")

sanitizeComponent(component) == SanitizeFrom(component, 1, FALSE)

(***************************************************************************)
(* sanitizePathComponents: split on '/' and '\', pop the file name         *)
(* (an empty one becomes "untitled"), sanitize every part.                 *)
(***************************************************************************)
PathSeparators == {"/", "\\"}
Untitled == <<"u","n","t","i","t","l","e","d">>

\* Variant: only the Unix separator splits the title.
sanitizePathComponentsUnixOnly(title) ==
  LET all == split(title, {"/"})
      popped == all[Len(all)]
      filename == IF popped = <<>> THEN Untitled ELSE popped
      parts == ButLast(all)
      sanitizedPathParts == [i \in 1..Len(parts) |-> sanitizeComponent(parts[i])]
  IN  [sanitizedPath |-> join(sanitizedPathParts, <<"/">>),
       sanitizedFilename |-> sanitizeComponent(filename)]

sanitizePathComponents(title) ==
  LET all == split(title, PathSeparators)
      popped == all[Len(all)]
      filename == IF popped = <<>> THEN Untitled ELSE popped
      parts == ButLast(all)
      sanitizedPathParts == [i \in 1..Len(parts) |-> sanitizeComponent(parts[i])]
  IN  [sanitizedPath |-> join(sanitizedPathParts, <<"/">>),
       sanitizedFilename |-> sanitizeComponent(filename)]

\* title.split(...) with a title that is not a string: null and undefined
\* have no properties and a number has no split method, so the call throws
\* a TypeError.
splitThrows(title) == title.t # "string"

(***************************************************************************)
(* constructFilePath.                                                      *)
(***************************************************************************)
\* Variant: the index is used as it is, without the + 1.
constructFilePathZeroBased(path, filename, extension, messageIndex, useDirectoryStructure) ==
  IF useDirectoryStructure
  THEN IF path # <<>> THEN path \o <<"/">> \o filename \o extension
                      ELSE filename \o extension
  ELSE NumberToString(messageIndex) \o <<"_">> \o filename \o extension

\* Variant: the flat branch keeps the directory part.
constructFilePathFlatKeepsPath(path, filename, extension, messageIndex, useDirectoryStructure) ==
  IF path # <<>>
  THEN path \o <<"/">> \o NumberToString(messageIndex + 1) \o <<"_">>
            \o filename \o extension
  ELSE NumberToString(messageIndex + 1) \o <<"_">> \o filename \o extension

constructFilePath(path, filename, extension, messageIndex, useDirectoryStructure) ==
  IF useDirectoryStructure
  THEN IF path # <<>> THEN path \o <<"/">> \o filename \o extension
                      ELSE filename \o extension
  ELSE NumberToString(messageIndex + 1) \o <<"_">> \o filename \o extension

(***************************************************************************)
(* makeUnique: the do-while loop that appends _1, _2, ... before the       *)
(* extension of the last path segment.                                     *)
(***************************************************************************)
\* The parts the loop works with: basePath, name and ext.
makeUniqueParts(fileName) ==
  LET lastSlashIndex == lastIndexOf(fileName, "/")
      basePath == IF lastSlashIndex # -1
                  THEN substring(fileName, 0, lastSlashIndex + 1) ELSE <<>>
      baseFilename == IF lastSlashIndex # -1
                      THEN substringFrom(fileName, lastSlashIndex + 1)
                      ELSE fileName
      lastDotIndex == lastIndexOf(baseFilename, ".")
  IN  [basePath |-> basePath,
       name |-> IF lastDotIndex # -1 THEN substring(baseFilename, 0, lastDotIndex)
                                     ELSE baseFilename,
       ext |-> IF lastDotIndex # -1 THEN substringFrom(baseFilename, lastDotIndex)
                                    ELSE <<>>]

\* Variant: the counter never reaches the name.
makeUniqueNameFixedCounter(fileName, counter) ==
  LET p == makeUniqueParts(fileName)
  IN  p.basePath \o p.name \o <<"_">> \o NumberToString(1) \o p.ext

\* uniqueName of the iteration in which counter has the given value.
makeUniqueName(fileName, counter) ==
  LET p == makeUniqueParts(fileName)
  IN  p.basePath \o p.name \o <<"_">> \o NumberToString(counter) \o p.ext

\* Variant: the name of the first iteration is returned without the retry.
makeUniqueNoRetry(fileName, usedNames) == makeUniqueName(fileName, 1)

RECURSIVE makeUniqueLoop(_, _, _)
makeUniqueLoop(fileName, usedNames, counter) ==
  LET uniqueName == makeUniqueName(fileName, counter)
  IN  IF uniqueName \in usedNames
      THEN makeUniqueLoop(fileName, usedNames, counter + 1)
      ELSE uniqueName

\* Variant: the counter is shared by all calls and never starts over.
makeUniqueSharedCounter(fileName, usedNames) ==
  makeUniqueLoop(fileName, usedNames, calls + 1)

\* Variant: the loop gives up after the second iteration.
makeUniqueOneRetry(fileName, usedNames) ==
  IF makeUniqueName(fileName, 1) \in usedNames
  THEN makeUniqueName(fileName, 2) ELSE makeUniqueName(fileName, 1)

makeUnique(fileName, usedNames) == makeUniqueLoop(fileName, usedNames, 1)

(***************************************************************************)
(* makeUniqueWithArrays: the alternative built from split/join and the     *)
(* FP utilities append and pipe.                                           *)
(***************************************************************************)
\* append = separator => suffix => base => [base, suffix].join(separator).
\* append(separator)(suffix) is a closure: it is kept as the pair it
\* captured, and Call applies it to a base.
append(separator, suffix) == [separator |-> separator, suffix |-> suffix]
Call(fn, base) == join(<<base, fn.suffix>>, fn.separator)

\* pipe = (...fns) => arg => fns.reduceRight((y, fn) => fn(y), arg):
\* the LAST function of the list is applied first.
RECURSIVE pipe(_, _)
pipe(fns, arg) ==
  IF fns = <<>> THEN arg
  ELSE pipe(ButLast(fns), Call(fns[Len(fns)], arg))

\* The parts the loop works with: basePath, ext and baseFilename.
makeUniqueWithArraysParts(fileName) ==
  LET allParts == split(fileName, {"/"})
      filenamePart == allParts[Len(allParts)]
      pathParts == ButLast(allParts)
      allFilenameParts == split(filenamePart, {"."})
      hasExt == Len(allFilenameParts) > 1
      filenameParts == IF hasExt THEN ButLast(allFilenameParts)
                                 ELSE allFilenameParts
  IN  [basePath |-> join(pathParts, <<"/">>),
       ext |-> IF hasExt THEN allFilenameParts[Len(allFilenameParts)] ELSE <<>>,
       baseFilename |-> join(filenameParts, <<".">>)]

\* uniqueName of the iteration in which uniqueSuffix has the given value.
makeUniqueWithArraysName(fileName, uniqueSuffix) ==
  LET p == makeUniqueWithArraysParts(fileName)
      appendExt == append(<<".">>, p.ext)
      prependPath == append(<<"/">>, p.basePath)
      appendSuffix == append(<<"_">>, uniqueSuffix)
  IN  pipe(<<appendSuffix, appendExt, prependPath>>, p.baseFilename)

RECURSIVE makeUniqueWithArraysLoop(_, _, _)
makeUniqueWithArraysLoop(fileName, usedNames, uniqueSuffix) ==
  LET uniqueName == makeUniqueWithArraysName(fileName, uniqueSuffix)
  IN  IF uniqueName \in usedNames
      THEN makeUniqueWithArraysLoop(fileName, usedNames, uniqueSuffix \o <<"*">>)
      ELSE uniqueName

makeUniqueWithArrays(fileName, usedNames) ==
  makeUniqueWithArraysLoop(fileName, usedNames, <<"*">>)

(***************************************************************************)
(* PathComposer: compose, and inferDirectoryStructure, which is compose    *)
(* in the nested directory layout.  An index or a suffix that is not       *)
(* passed is undefined: present = FALSE.                                   *)
(***************************************************************************)
Undefined == [present |-> FALSE, n |-> 0]
Index(n) == [present |-> TRUE, n |-> n]
NoSuffix == [present |-> FALSE, s |-> <<>>]
Suffix(s) == [present |-> TRUE, s |-> s]

\* Variant: an index of 0 is taken for a missing index.
composeFalsyIndex(rawTitle, extension, ordinalIndex, suffix, policy) ==
  LET segments == IF rawTitle = <<>> THEN <<>> ELSE split(rawTitle, PathSeparators)
      leaf == IF segments = <<>> THEN <<>>
              ELSE sanitizeComponent(segments[Len(segments)])
      dirs == IF segments = <<>> THEN <<>>
              ELSE [i \in 1..(Len(segments) - 1) |-> sanitizeComponent(segments[i])]
      prefix == IF ordinalIndex.present /\ ordinalIndex.n # 0
                THEN NumberToString(ordinalIndex.n + 1) \o <<"_">> ELSE <<>>
      file == prefix \o leaf \o (IF suffix.present THEN suffix.s ELSE <<>>)
                \o extension
  IN  IF policy = "Flat" THEN file ELSE join(Append(dirs, file), <<"/">>)

\* Variant: the suffix is appended after the extension.
composeSuffixLast(rawTitle, extension, ordinalIndex, suffix, policy) ==
  LET segments == IF rawTitle = <<>> THEN <<>> ELSE split(rawTitle, PathSeparators)
      leaf == IF segments = <<>> THEN <<>>
              ELSE sanitizeComponent(segments[Len(segments)])
      dirs == IF segments = <<>> THEN <<>>
              ELSE [i \in 1..(Len(segments) - 1) |-> sanitizeComponent(segments[i])]
      prefix == IF ordinalIndex.present
                THEN NumberToString(ordinalIndex.n + 1) \o <<"_">> ELSE <<>>
      file == prefix \o leaf \o extension
                \o (IF suffix.present THEN suffix.s ELSE <<>>)
  IN  IF policy = "Flat" THEN file ELSE join(Append(dirs, file), <<"/">>)

compose(rawTitle, extension, ordinalIndex, suffix, policy) ==
  LET segments == IF rawTitle = <<>> THEN <<>> ELSE split(rawTitle, PathSeparators)
      leaf == IF segments = <<>> THEN <<>>
              ELSE sanitizeComponent(segments[Len(segments)])
      dirs == IF segments = <<>> THEN <<>>
              ELSE [i \in 1..(Len(segments) - 1) |-> sanitizeComponent(segments[i])]
      prefix == IF ordinalIndex.present
                THEN NumberToString(ordinalIndex.n + 1) \o <<"_">> ELSE <<>>
      file == prefix \o leaf \o (IF suffix.present THEN suffix.s ELSE <<>>)
                \o extension
  IN  IF policy = "Flat" THEN file ELSE join(Append(dirs, file), <<"/">>)

inferDirectoryStructure(baseName, extension, messageIndex, suffix) ==
  compose(baseName, extension, messageIndex, suffix, "DirectoryStructure")

(***************************************************************************)
(* NamingEngine: getUniqueFileName.  The result is the returned file name  *)
(* together with the set as the call leaves it.                            *)
(***************************************************************************)
\* The candidate the call builds before it looks at the set.
candidateFileName(title, language, messageIndex, useDirectoryStructure) ==
  LET c == sanitizePathComponents(title)
  IN  constructFilePath(c.sanitizedPath, c.sanitizedFilename,
                        getFileExtension(language), messageIndex,
                        useDirectoryStructure)

\* Variant: makeUnique is applied whether or not the candidate is taken.
getUniqueFileNameAlwaysMarks(title, language, messageIndex, usedNames, useDirectoryStructure) ==
  LET candidate == candidateFileName(title, language, messageIndex,
                                     useDirectoryStructure)
      fileName == makeUnique(candidate, usedNames)
  IN  [fileName |-> fileName, usedNames |-> usedNames \cup {fileName}]

\* Variant: the name is added to the set only in the collision branch.
getUniqueFileNameAddsOnCollision(title, language, messageIndex, usedNames, useDirectoryStructure) ==
  LET candidate == candidateFileName(title, language, messageIndex,
                                     useDirectoryStructure)
  IN  IF candidate \in usedNames
      THEN LET fileName == makeUnique(candidate, usedNames)
           IN  [fileName |-> fileName, usedNames |-> usedNames \cup {fileName}]
      ELSE [fileName |-> candidate, usedNames |-> usedNames]

getUniqueFileName(title, language, messageIndex, usedNames, useDirectoryStructure) ==
  LET candidate == candidateFileName(title, language, messageIndex,
                                     useDirectoryStructure)
      fileName == IF candidate \in usedNames
                  THEN makeUnique(candidate, usedNames) ELSE candidate
  IN  [fileName |-> fileName, usedNames |-> usedNames \cup {fileName}]

(***************************************************************************)
(* Runs of the naming engine.                                              *)
(***************************************************************************)
NoCall == [messageIndex |-> 0, pre |-> {}, candidate |-> <<>>, fileName |-> <<>>]
NoArtifact == [title |-> <<>>, language |-> JSString(<<>>), messageIndex |-> 0]
NoComposed ==
  [rawTitle |-> <<>>, extension |-> <<>>,
   ordinalIndex |-> [present |-> FALSE, n |-> 0],
   suffix |-> [present |-> FALSE, s |-> <<>>],
   policy |-> "Flat", result |-> <<>>, pc |-> "done"]
NoReplay == [inputs |-> <<>>, run |-> 1, first |-> <<>>, out |-> <<>>]
NoResolve ==
  [fn |-> "none", fileName |-> <<>>, counter |-> 1, uniqueSuffix |-> <<"*">>,
   uniqueName |-> <<>>, tried |-> {}, iterations |-> 0, pc |-> "done"]
NoSanitizer == [component |-> <<>>, once |-> <<>>, twice |-> <<>>, pc |-> "done"]
NoLookup == [language |-> JSString(<<>>), extension |-> <<>>, pc |-> "done"]
NoAttempt ==
  [title |-> JSString(<<>>), language |-> JSString(<<>>), messageIndex |-> 0,
   outcome |-> "none", fileName |-> <<>>, pc |-> "done"]
NoConstructed ==
  [path |-> <<>>, filename |-> <<>>, extension |-> <<>>, messageIndex |-> 0,
   useDirectoryStructure |-> FALSE, result |-> <<>>, pc |-> "done"]
NoWalk ==
  [payload |-> <<>>, startDepth |-> 0, stack |-> <<>>, artifactCount |-> 0,
   visits |-> <<>>, warnings |-> <<>>, result |-> -1, steps |-> 0,
   pc |-> "done"]

\* The loop body of processMessage: name one artifact against the set.
Name(title, language, messageIndex) ==
  /\ LET r == getUniqueFileName(title, language, messageIndex, allocated,
                                directoryMode)
     IN  /\ allocated' = r.usedNames
         /\ returned' = returned \cup {r.fileName}
         /\ last' = [messageIndex |-> messageIndex, pre |-> allocated,
                     candidate |-> candidateFileName(title, language,
                                                     messageIndex, directoryMode),
                     fileName |-> r.fileName]
  /\ calls' = calls + 1
  /\ UNCHANGED <<directoryMode, initialNames>>

(***************************************************************************)
(* One archive build: a run of getUniqueFileName calls on one set.         *)
(***************************************************************************)
\* Inputs of the run.
RunAlphabet == {"a", "/", " "}
Titles == StringsUpTo(RunAlphabet, MaxTitleLen)
Languages == {JSString(<<"c">>)}
MessageIndexes == {0, 9}
SeedNames == { <<"1","_","a",".","c">>, <<"a",".","c">> }

Init ==
  /\ initialNames \in SUBSET SeedNames
  /\ allocated = initialNames
  /\ directoryMode \in BOOLEAN
  /\ calls = 0
  /\ returned = {}
  /\ last = NoCall
  /\ artifact = NoArtifact
  /\ resolve = NoResolve
  /\ composed = NoComposed
  /\ replay = NoReplay
  /\ sanitizer = NoSanitizer
  /\ lookup = NoLookup
  /\ attempt = NoAttempt
  /\ constructed = NoConstructed
  /\ walk = NoWalk
  /\ log = <<>>

Assign(title, language, messageIndex) ==
  /\ calls < MaxCalls
  /\ Name(title, language, messageIndex)
  /\ UNCHANGED <<artifact, resolve, composed, replay, sanitizer, lookup, attempt,
                 constructed, walk, log>>

Next ==
  \E title \in Titles, language \in Languages, messageIndex \in MessageIndexes :
    Assign(title, language, messageIndex)

Spec == Init /\ [][Next]_vars

(***************************************************************************)
(* One naming call for one artifact, over richer titles.  The set holds    *)
(* what up to MaxPrior earlier calls for the same artifact left in it.     *)
(***************************************************************************)
NameAlphabet == {"a", "/", "\\", ".", " ", "_"}
NameTitles == StringsUpTo(NameAlphabet, MaxNameTitleLen)
NameLanguages == {JSString(<<"c">>), JSString(<<>>)}

RECURSIVE NamesAfter(_, _, _)
NamesAfter(a, useDirectoryStructure, k) ==
  IF k = 0 THEN {}
  ELSE getUniqueFileName(a.title, a.language, a.messageIndex,
                         NamesAfter(a, useDirectoryStructure, k - 1),
                         useDirectoryStructure).usedNames

InitName ==
  /\ artifact \in [title : NameTitles, language : NameLanguages,
                   messageIndex : MessageIndexes]
  /\ directoryMode \in BOOLEAN
  /\ \E k \in 0..MaxPrior : initialNames = NamesAfter(artifact, directoryMode, k)
  /\ allocated = initialNames
  /\ calls = 0
  /\ returned = {}
  /\ last = NoCall
  /\ resolve = NoResolve
  /\ composed = NoComposed
  /\ replay = NoReplay
  /\ sanitizer = NoSanitizer
  /\ lookup = NoLookup
  /\ attempt = NoAttempt
  /\ constructed = NoConstructed
  /\ walk = NoWalk
  /\ log = <<>>

NameArtifact ==
  /\ calls = 0
  /\ Name(artifact.title, artifact.language, artifact.messageIndex)
  /\ UNCHANGED <<artifact, resolve, composed, replay, sanitizer, lookup, attempt,
                 constructed, walk, log>>

NextName == NameArtifact

SpecName == InitName /\ [][NextName]_vars

(***************************************************************************)
(* The collision-retry loops, one iteration of the do-while per step.      *)
(***************************************************************************)
ResolveAlphabet == {"a", "/", "."}
ResolveNames ==
  (StringsUpTo(ResolveAlphabet, MaxResolveLen) \ {<<>>})
    \cup { <<"2","_","t","e","s","t","-","f","i","l","e",".","j","s">> }

RECURSIVE Stars(_)
Stars(k) == IF k = 0 THEN <<>> ELSE Stars(k - 1) \o <<"*">>

\* fileName with '_' and k stars immediately before the extension of its
\* last segment (the marker the tests of getUniqueFileName expect).
StarMarked(fileName, k) ==
  LET p == makeUniqueParts(fileName)
  IN  p.basePath \o p.name \o <<"_">> \o Stars(k) \o p.ext

\* The used file name together with the first names of every marker scheme.
UsedWith(fileName, n1, n2, n3) ==
  {fileName}
    \cup {makeUniqueName(fileName, k) : k \in 1..n1}
    \cup {makeUniqueWithArraysName(fileName, Stars(k)) : k \in 1..n2}
    \cup {StarMarked(fileName, k) : k \in 1..n3}

InitResolve ==
  /\ \E fileName \in ResolveNames, fn \in {"makeUnique", "makeUniqueWithArrays"} :
       /\ resolve = [NoResolve EXCEPT !.fn = fn, !.fileName = fileName,
                                      !.pc = "loop"]
       /\ \E n1 \in 0..MaxPrior, n2 \in 0..MaxPrior, n3 \in 0..MaxPrior :
            allocated = UsedWith(fileName, n1, n2, n3)
  /\ initialNames = allocated
  /\ directoryMode = FALSE
  /\ calls = 0
  /\ returned = {}
  /\ last = NoCall
  /\ artifact = NoArtifact
  /\ composed = NoComposed
  /\ replay = NoReplay
  /\ sanitizer = NoSanitizer
  /\ lookup = NoLookup
  /\ attempt = NoAttempt
  /\ constructed = NoConstructed
  /\ walk = NoWalk
  /\ log = <<>>

\* do { uniqueName = ...; counter++ } while (usedNames.has(uniqueName))
MakeUniqueIteration ==
  /\ resolve.fn = "makeUnique"
  /\ resolve.pc = "loop"
  /\ LET uniqueName == makeUniqueName(resolve.fileName, resolve.counter)
     IN  resolve' = [resolve EXCEPT
                       !.uniqueName = uniqueName,
                       !.counter = resolve.counter + 1,
                       !.tried = resolve.tried \cup {uniqueName},
                       !.iterations = resolve.iterations + 1,
                       !.pc = IF uniqueName \in allocated THEN "loop" ELSE "done"]
  /\ UNCHANGED <<allocated, directoryMode, initialNames, calls, returned, last,
                 artifact, composed, replay, sanitizer, lookup, attempt,
                 constructed, walk, log>>

\* do { uniqueName = ...; uniqueSuffix += '*' } while (usedNames.has(uniqueName))
MakeUniqueWithArraysIteration ==
  /\ resolve.fn = "makeUniqueWithArrays"
  /\ resolve.pc = "loop"
  /\ LET uniqueName == makeUniqueWithArraysName(resolve.fileName,
                                                resolve.uniqueSuffix)
     IN  resolve' = [resolve EXCEPT
                       !.uniqueName = uniqueName,
                       !.uniqueSuffix = resolve.uniqueSuffix \o <<"*">>,
                       !.tried = resolve.tried \cup {uniqueName},
                       !.iterations = resolve.iterations + 1,
                       !.pc = IF uniqueName \in allocated THEN "loop" ELSE "done"]
  /\ UNCHANGED <<allocated, directoryMode, initialNames, calls, returned, last,
                 artifact, composed, replay, sanitizer, lookup, attempt,
                 constructed, walk, log>>

NextResolve == MakeUniqueIteration \/ MakeUniqueWithArraysIteration

SpecResolve == InitResolve /\ [][NextResolve]_vars

(***************************************************************************)
(* Properties of the collision-retry loops.                                *)
(***************************************************************************)
Returned(fn) ==
  resolve.fn = fn /\ resolve.pc = "done" /\ resolve.iterations > 0

\* The least k >= 1 for which the star-marked name is free.
RECURSIVE FirstFreeStars(_, _, _)
FirstFreeStars(fileName, usedNames, k) ==
  IF StarMarked(fileName, k) \in usedNames
  THEN FirstFreeStars(fileName, usedNames, k + 1) ELSE k

\* C3: for a candidate that is already in the set, the resolver returns
\* the candidate with '_' and a run of '*' inserted immediately before the
\* extension, the run being the shortest one whose path is not in the set.
C3_StarMarkerBeforeExtension ==
  Returned("makeUniqueWithArrays") =>
    resolve.uniqueName =
      StarMarked(resolve.fileName,
                 FirstFreeStars(resolve.fileName, allocated, 1))

\* C6: the retry loop terminates: every iteration tries a name no earlier
\* iteration tried, so there are never more than |allocated| + 1
\* iterations, and the name it ends with is not in the set.
C6_RetryLoopTerminates ==
  /\ resolve.iterations <= Cardinality(allocated) + 1
  /\ Cardinality(resolve.tried) = resolve.iterations
  /\ resolve.pc = "loop" => resolve.tried \subseteq allocated
  /\ (resolve.pc = "done" /\ resolve.iterations > 0) =>
       resolve.uniqueName \notin allocated

C6_Witness ==
  /\ resolve.pc = "done"
  /\ resolve.iterations >= 3
  /\ Cardinality(allocated) >= 3

(***************************************************************************)
(* One path composition.                                                   *)
(***************************************************************************)
ComposeAlphabet == {"a", "/", "\\", " "}
ComposeTitles == StringsUpTo(ComposeAlphabet, MaxNameTitleLen)
ComposeExtensions == {<<>>, <<".","c">>}
ComposeIndexes == {Undefined} \cup {Index(n) : n \in MessageIndexes}
ComposeSuffixes == {NoSuffix, Suffix(<<"_","m">>)}
LayoutPolicies == {"Flat", "DirectoryStructure"}

InitCompose ==
  /\ composed \in [rawTitle : ComposeTitles, extension : ComposeExtensions,
                   ordinalIndex : ComposeIndexes, suffix : ComposeSuffixes,
                   policy : LayoutPolicies, result : {<<>>}, pc : {"call"}]
  /\ allocated = {}
  /\ initialNames = {}
  /\ directoryMode = FALSE
  /\ calls = 0
  /\ returned = {}
  /\ last = NoCall
  /\ artifact = NoArtifact
  /\ resolve = NoResolve
  /\ replay = NoReplay
  /\ sanitizer = NoSanitizer
  /\ lookup = NoLookup
  /\ attempt = NoAttempt
  /\ constructed = NoConstructed
  /\ walk = NoWalk
  /\ log = <<>>

Compose ==
  /\ composed.pc = "call"
  /\ composed' = [composed EXCEPT
                    !.result = compose(composed.rawTitle, composed.extension,
                                       composed.ordinalIndex, composed.suffix,
                                       composed.policy),
                    !.pc = "done"]
  /\ UNCHANGED <<allocated, directoryMode, initialNames, calls, returned, last,
                 artifact, resolve, replay, sanitizer, lookup, attempt,
                 constructed, walk, log>>

NextCompose == Compose

SpecCompose == InitCompose /\ [][NextCompose]_vars

(***************************************************************************)
(* The same artifact sequence named in two successive runs, each on a      *)
(* fresh empty set.  calls counts the calls of both runs.                  *)
(***************************************************************************)
ReplayTitles == { <<"a">>, <<"a"," ">>, <<"/","a">> }
ReplayArtifacts ==
  [title : ReplayTitles, language : Languages, messageIndex : MessageIndexes]

RECURSIVE SequencesUpTo(_, _)
SequencesUpTo(S, n) ==
  IF n = 0 THEN {<<>>}
  ELSE LET shorter == SequencesUpTo(S, n - 1)
       IN  shorter \cup {Append(q, x) : q \in shorter, x \in S}

InitReplay ==
  /\ \E inputs \in SequencesUpTo(ReplayArtifacts, MaxReplayLen) \ {<<>>} :
       replay = [NoReplay EXCEPT !.inputs = inputs]
  /\ directoryMode \in BOOLEAN
  /\ allocated = {}
  /\ initialNames = {}
  /\ calls = 0
  /\ returned = {}
  /\ last = NoCall
  /\ artifact = NoArtifact
  /\ resolve = NoResolve
  /\ composed = NoComposed
  /\ sanitizer = NoSanitizer
  /\ lookup = NoLookup
  /\ attempt = NoAttempt
  /\ constructed = NoConstructed
  /\ walk = NoWalk
  /\ log = <<>>

\* Name the next artifact of the sequence in the current run.
ReplayAssign ==
  /\ Len(replay.out) < Len(replay.inputs)
  /\ LET a == replay.inputs[Len(replay.out) + 1]
     IN  /\ Name(a.title, a.language, a.messageIndex)
         /\ replay' = [replay EXCEPT
                         !.out = Append(replay.out,
                                        getUniqueFileName(a.title, a.language,
                                                          a.messageIndex, allocated,
                                                          directoryMode).fileName)]
  /\ UNCHANGED <<artifact, resolve, composed, sanitizer, lookup, attempt,
                 constructed, walk, log>>

\* The first run is over: its set is discarded, the second starts on a
\* new empty one.
StartSecondRun ==
  /\ replay.run = 1
  /\ Len(replay.out) = Len(replay.inputs)
  /\ replay' = [replay EXCEPT !.run = 2, !.first = replay.out, !.out = <<>>]
  /\ allocated' = {}
  /\ returned' = {}
  /\ UNCHANGED <<directoryMode, initialNames, calls, last, artifact, resolve,
                 composed, sanitizer, lookup, attempt,
                 constructed, walk, log>>

NextReplay == ReplayAssign \/ StartSecondRun

SpecReplay == InitReplay /\ [][NextReplay]_vars

(***************************************************************************)
(* One component sanitized, and the result sanitized once more.            *)
(***************************************************************************)
SanitizeAlphabet == {"a", "_", " ", "!", ".", "-"}
Components == StringsUpTo(SanitizeAlphabet, MaxComponentLen)

InitSanitize ==
  /\ \E component \in Components :
       sanitizer = [NoSanitizer EXCEPT !.component = component, !.pc = "call"]
  /\ allocated = {}
  /\ initialNames = {}
  /\ directoryMode = FALSE
  /\ calls = 0
  /\ returned = {}
  /\ last = NoCall
  /\ artifact = NoArtifact
  /\ resolve = NoResolve
  /\ composed = NoComposed
  /\ replay = NoReplay
  /\ lookup = NoLookup
  /\ attempt = NoAttempt
  /\ constructed = NoConstructed
  /\ walk = NoWalk
  /\ log = <<>>

Sanitize ==
  /\ sanitizer.pc = "call"
  /\ sanitizer' = [sanitizer EXCEPT
                     !.once = sanitizeComponent(sanitizer.component),
                     !.pc = "once"]
  /\ UNCHANGED <<allocated, directoryMode, initialNames, calls, returned, last,
                 artifact, resolve, composed, replay, lookup, attempt,
                 constructed, walk, log>>

SanitizeAgain ==
  /\ sanitizer.pc = "once"
  /\ sanitizer' = [sanitizer EXCEPT
                     !.twice = sanitizeComponent(sanitizer.once),
                     !.pc = "done"]
  /\ UNCHANGED <<allocated, directoryMode, initialNames, calls, returned, last,
                 artifact, resolve, composed, replay, lookup, attempt,
                 constructed, walk, log>>

NextSanitize == Sanitize \/ SanitizeAgain

SpecSanitize == InitSanitize /\ [][NextSanitize]_vars

(***************************************************************************)
(* Properties of the sanitizer.                                            *)
(***************************************************************************)
\* x with every maximal run of characters outside allowed replaced by one
\* "_", position by position: a character of allowed stays, the first
\* character of a run becomes "_", the others of the run go.
RunsReplaced(x, allowed) ==
  LET positions == [i \in 1..Len(x) |-> i]
      kept == SelectSeq(positions,
                        LAMBDA i : x[i] \in allowed \/ i = 1
                                     \/ x[i - 1] \in allowed)
  IN  [k \in 1..Len(kept) |->
         IF x[kept[k]] \in allowed THEN x[kept[k]] ELSE "_"]

\* Position i of x lies in a run of "_" and characters outside KeptChars
\* that holds at least one character outside KeptChars.
InMixedRun(x, i) ==
  \E j \in 1..Len(x) :
    /\ x[j] \notin KeptChars
    /\ \A k \in (IF i < j THEN i ELSE j)..(IF i < j THEN j ELSE i) :
         x[k] \notin (KeptChars \ {"_"})

\* x with every such mixed run replaced by one "_".
MixedRunsReplaced(x) ==
  LET positions == [i \in 1..Len(x) |-> i]
      kept == SelectSeq(positions,
                        LAMBDA i : ~InMixedRun(x, i) \/ i = 1
                                     \/ ~InMixedRun(x, i - 1))
  IN  [k \in 1..Len(kept) |->
         IF InMixedRun(x, kept[k]) THEN "_" ELSE x[kept[k]]]

\* C12 as stated: every maximal run of characters outside [A-Za-z0-9._-]
\* becomes exactly one '_', nothing is trimmed, and a run that mixes a
\* literal '_' with such characters ('_ ') collapses to a single '_'.
C12_MixedRunCollapses ==
  sanitizer.pc # "call" =>
    sanitizer.once = MixedRunsReplaced(sanitizer.component)

\* C12 as amended: every maximal run of characters outside [A-Za-z0-9._-]
\* becomes exactly one '_' and every other character, a literal '_'
\* included, stays in place, nothing being trimmed; a literal '_' next to
\* such a run is kept beside the '_' that replaces the run ('_ ' becomes
\* '__').
C12_RunsReplacedUnderscoreKept ==
  sanitizer.pc # "call" =>
    sanitizer.once = RunsReplaced(sanitizer.component, KeptChars)

C12_Witness ==
  /\ sanitizer.pc = "once"
  /\ sanitizer.component = <<"a", "_", " ", "!">>
  /\ sanitizer.once = <<"a", "_", "_">>

\* C13: sanitize is idempotent: sanitizing a sanitized component gives the
\* same component again.
C13_SanitizeIdempotent ==
  sanitizer.pc = "done" => sanitizer.twice = sanitizer.once

C13_Witness ==
  /\ sanitizer.pc = "done"
  /\ sanitizer.component = <<" ", "a", "!", " ">>
  /\ sanitizer.once = <<"_", "a", "_">>
  /\ sanitizer.twice = sanitizer.once

(***************************************************************************)
(* One extension lookup.                                                   *)
(***************************************************************************)
LanguageAlphabet == {"c", "C", "p", "P", "s", "S"}
LanguageTags ==
  StringsUpTo(LanguageAlphabet, MaxLanguageLen)
    \cup { <<"P","Y","T","H","O","N">>, <<"P","y","t","h","o","n">>,
           <<"p","y","t","h","o","n">>, <<"u","n","k","n","o","w","n">> }
LanguageValues == {JSNull, JSUndefined} \cup {JSString(t) : t \in LanguageTags}

InitLookup ==
  /\ \E language \in LanguageValues :
       lookup = [NoLookup EXCEPT !.language = language, !.pc = "call"]
  /\ allocated = {}
  /\ initialNames = {}
  /\ directoryMode = FALSE
  /\ calls = 0
  /\ returned = {}
  /\ last = NoCall
  /\ artifact = NoArtifact
  /\ resolve = NoResolve
  /\ composed = NoComposed
  /\ replay = NoReplay
  /\ sanitizer = NoSanitizer
  /\ attempt = NoAttempt
  /\ constructed = NoConstructed
  /\ walk = NoWalk
  /\ log = <<>>

Lookup ==
  /\ lookup.pc = "call"
  /\ lookup' = [lookup EXCEPT !.extension = getFileExtension(lookup.language),
                              !.pc = "done"]
  /\ UNCHANGED <<allocated, directoryMode, initialNames, calls, returned, last,
                 artifact, resolve, composed, replay, sanitizer, attempt,
                 constructed, walk, log>>

NextLookup == Lookup

SpecLookup == InitLookup /\ [][NextLookup]_vars

(***************************************************************************)
(* Properties of the extension lookup.                                     *)
(***************************************************************************)
\* The tag is a non-empty string whose lower-case form is a key of the table.
InTable(language) ==
  /\ language.t = "string"
  /\ \E e \in languageToExt : e[1] = toLowerCase(language.s)

\* C18: the lookup is case-insensitive: a tag resolves to what its
\* lower-case form resolves to, which for a tag that is a table key in any
\* mix of cases is that key's extension ('PYTHON', 'Python' and 'python'
\* all give '.py').
C18_CaseInsensitiveLookup ==
  (lookup.pc = "done" /\ lookup.language.t = "string") =>
    /\ lookup.extension =
         getFileExtension(JSString(toLowerCase(lookup.language.s)))
    /\ \A e \in languageToExt :
         toLowerCase(lookup.language.s) = e[1] => lookup.extension = e[2]

C18_Witness ==
  /\ lookup.pc = "done"
  /\ lookup.language = JSString(<<"P","Y","T","H","O","N">>)
  /\ lookup.extension = <<".","p","y">>

\* C19: the lookup is total: the empty string, null, undefined and every
\* tag that is not in the table give '.txt', and every result is a
\* non-empty string that starts with '.'.
C19_LookupTotal ==
  lookup.pc = "done" =>
    /\ lookup.extension # <<>>
    /\ lookup.extension[1] = "."
    /\ ~InTable(lookup.language) => lookup.extension = <<".","t","x","t">>

C19_Witness ==
  /\ lookup.pc = "done"
  /\ lookup.language = JSNull
  /\ lookup.extension = <<".","t","x","t">>

(***************************************************************************)
(* One getUniqueFileName call whose title and language may be any value.   *)
(***************************************************************************)
TitleValues == {JSNull, JSUndefined, JSNumber} \cup {JSString(t) : t \in Titles}
AttemptLanguages == {JSNull, JSUndefined, JSString(<<>>), JSString(<<"c">>)}
AttemptSeeds == { <<"1","_",".","t","x","t">>, <<".","t","x","t">> }

InitAttempt ==
  /\ attempt \in [title : TitleValues, language : AttemptLanguages,
                  messageIndex : MessageIndexes, outcome : {"none"},
                  fileName : {<<>>}, pc : {"call"}]
  /\ initialNames \in SUBSET AttemptSeeds
  /\ allocated = initialNames
  /\ directoryMode \in BOOLEAN
  /\ calls = 0
  /\ returned = {}
  /\ last = NoCall
  /\ artifact = NoArtifact
  /\ resolve = NoResolve
  /\ composed = NoComposed
  /\ replay = NoReplay
  /\ sanitizer = NoSanitizer
  /\ lookup = NoLookup
  /\ constructed = NoConstructed
  /\ walk = NoWalk
  /\ log = <<>>

\* The call runs to its return statement.
AttemptReturns ==
  /\ attempt.pc = "call"
  /\ ~splitThrows(attempt.title)
  /\ Name(attempt.title.s, attempt.language, attempt.messageIndex)
  /\ attempt' = [attempt EXCEPT
                   !.outcome = "returned",
                   !.fileName = getUniqueFileName(attempt.title.s,
                                                  attempt.language,
                                                  attempt.messageIndex, allocated,
                                                  directoryMode).fileName,
                   !.pc = "done"]
  /\ UNCHANGED <<artifact, resolve, composed, replay, sanitizer, lookup,
                 constructed, walk, log>>

\* sanitizePathComponents throws in its first statement; nothing catches
\* it, so the call ends there and the set is not touched.
AttemptThrows ==
  /\ attempt.pc = "call"
  /\ splitThrows(attempt.title)
  /\ attempt' = [attempt EXCEPT !.outcome = "TypeError", !.pc = "done"]
  /\ UNCHANGED <<allocated, directoryMode, initialNames, calls, returned, last,
                 artifact, resolve, composed, replay, sanitizer, lookup,
                 constructed, walk, log>>

NextAttempt == AttemptReturns \/ AttemptThrows

SpecAttempt == InitAttempt /\ [][NextAttempt]_vars

(***************************************************************************)
(* Properties of a call with arbitrary argument values.                    *)
(***************************************************************************)
\* C20: getUniqueFileName never throws: whatever the title and the
\* language are, a path is returned and is in the set afterwards; a title
\* that is not a string counts as the empty title and a language that is
\* not a string gives '.txt', so in flat mode on an empty set the path is then
\* messageIndex + 1, '_' and '.txt'.
C20_NeverThrows ==
  attempt.pc = "done" =>
    /\ attempt.outcome = "returned"
    /\ attempt.fileName \in allocated
    /\ (/\ attempt.title.t # "string"
        /\ attempt.language.t # "string"
        /\ ~directoryMode
        /\ initialNames = {}) =>
         attempt.fileName =
           NumberToString(attempt.messageIndex + 1) \o <<"_",".","t","x","t">>

(***************************************************************************)
(* Properties of a run.                                                    *)
(***************************************************************************)
\* The call recorded in last found its candidate already allocated.
Collided == calls > 0 /\ last.candidate \in last.pre

\* C1: the paths returned by the calls of one run on one shared set are
\* pairwise distinct (as many different paths as calls), and no returned
\* path was in the set before its call, whatever the set held initially.
C1_UniquePaths ==
  /\ Cardinality(returned) = calls
  /\ returned \cap initialNames = {}
  /\ calls > 0 => last.fileName \notin last.pre

C1_Witness ==
  /\ calls >= 2
  /\ initialNames # {}
  /\ Collided

\* C4: a candidate that is not in the set is returned unchanged, and it is
\* in the set after the call.
C4_FreshCandidateUnchanged ==
  (calls > 0 /\ last.candidate \notin last.pre) =>
    (last.fileName = last.candidate /\ last.candidate \in allocated)

C4_Witness ==
  /\ calls > 0
  /\ last.pre # {}
  /\ last.candidate \notin last.pre
  /\ last.fileName \in allocated

\* C5: a call changes the set only by adding the path it returns: nothing
\* is removed, nothing else is added, and the set grows by exactly one
\* path per call over the whole run.
C5_OnlyReturnedPathAdded ==
  /\ calls > 0 => /\ allocated = last.pre \cup {last.fileName}
                  /\ Cardinality(allocated) = Cardinality(last.pre) + 1
  /\ initialNames \subseteq allocated
  /\ allocated = initialNames \cup returned
  /\ Cardinality(allocated) = Cardinality(initialNames) + calls

C5_Witness ==
  /\ calls >= 2
  /\ initialNames # {}
  /\ Cardinality(allocated) = Cardinality(initialNames) + 2

\* The decimal prefix expected for each message index of the run.
ExpectedPrefix(messageIndex) ==
  CASE messageIndex = 0 -> <<"1","_">>
    [] messageIndex = 9 -> <<"1","0","_">>

\* C7: in flat mode the returned path begins with the decimal number
\* messageIndex + 1 followed by '_', with or without a collision marker.
C7_FlatIndexPrefix ==
  (calls > 0 /\ ~directoryMode) =>
    startsWith(last.fileName, ExpectedPrefix(last.messageIndex))

C7_Witness ==
  /\ ~directoryMode
  /\ Collided
  /\ last.messageIndex = 9
  /\ last.fileName # last.candidate

(***************************************************************************)
(* Properties of one naming call.                                          *)
(***************************************************************************)
\* A path up to and including its last '/', and what follows it.
PathDirectory(path) == substring(path, 0, lastIndexOf(path, "/") + 1)
PathLeaf(path) == substringFrom(path, lastIndexOf(path, "/") + 1)

\* Every segment followed by '/'.
RECURSIVE EachFollowedBySlash(_)
EachFollowedBySlash(segments) ==
  IF segments = <<>> THEN <<>>
  ELSE sanitizeComponent(Head(segments)) \o <<"/">>
         \o EachFollowedBySlash(Tail(segments))

\* The title without its directory segments: what follows the last '/' or
\* '\' of the title.
RECURSIVE LeafOfTitle(_)
LeafOfTitle(t) ==
  IF t = <<>> \/ t[Len(t)] \in {"/", "\\"} THEN <<>>
  ELSE Append(LeafOfTitle(SubSeq(t, 1, Len(t) - 1)), t[Len(t)])

HasDirectorySegment(t) == \E i \in 1..Len(t) : t[i] \in {"/", "\\"}

\* C10: in flat mode the directory segments of the title are discarded:
\* the returned path has no '/', and the candidate is the one the leaf of
\* the title alone produces, so titles that differ only in their directory
\* segments produce the same candidate.
C10_FlatDiscardsDirectories ==
  (calls > 0 /\ ~directoryMode) =>
    /\ ~Contains(last.fileName, "/")
    /\ last.candidate =
         candidateFileName(LeafOfTitle(artifact.title), artifact.language,
                           artifact.messageIndex, FALSE)

C10_Witness ==
  /\ calls > 0
  /\ ~directoryMode
  /\ HasDirectorySegment(artifact.title)
  /\ artifact.title[1] = "a"
  /\ LeafOfTitle(artifact.title) # <<>>
  /\ last.candidate \in last.pre

\* The segments of a title, each sanitized on its own.
SanitizedSegments(t) ==
  LET segments == split(t, PathSeparators)
  IN  [i \in 1..Len(segments) |-> sanitizeComponent(segments[i])]

AllSegmentsNonEmpty(t) ==
  LET segments == split(t, PathSeparators)
  IN  \A i \in 1..Len(segments) : segments[i] # <<>>

\* C11: with useDirectoryStructure enabled and the name not yet allocated,
\* the returned path carries no numeric index prefix and is the sanitized
\* segments of the title joined with '_' and followed by the extension
\* (('src/components/Button','javascript',1) gives
\* 'src_components_Button.js').
C11_DirectoryModeOmitsIndex ==
  (/\ calls > 0
   /\ directoryMode
   /\ last.candidate \notin last.pre
   /\ AllSegmentsNonEmpty(artifact.title)) =>
    last.fileName =
      join(SanitizedSegments(artifact.title), <<"_">>)
        \o getFileExtension(artifact.language)

\* C14: an empty title yields an empty leaf name, never a placeholder:
\* in flat mode on an empty set the returned path is messageIndex + 1,
\* '_' and then directly the extension ('1_.py').
C14_EmptyTitleEmptyLeaf ==
  (/\ calls > 0
   /\ ~directoryMode
   /\ artifact.title = <<>>
   /\ last.pre = {}) =>
    last.fileName =
      NumberToString(artifact.messageIndex + 1) \o <<"_">>
        \o getFileExtension(artifact.language)

\* The title with every '\' written as '/'.
ForwardSlashes(t) == [i \in 1..Len(t) |-> IF t[i] = "\\" THEN "/" ELSE t[i]]

DirectorySegments(t) == ButLast(split(t, PathSeparators))

AllDirectorySegmentsNonEmpty(t) ==
  \A i \in 1..Len(DirectorySegments(t)) : DirectorySegments(t)[i] # <<>>

C16_NoLeadingSlash ==
  calls > 0 => ~startsWith(last.fileName, <<"/">>)

\* C17: no returned path has a segment that is exactly '..', whatever the
\* title, titles with a directory component of two dots included.
C17_NoDotDotSegment ==
  calls > 0 =>
    LET segments == split(last.fileName, {"/"})
    IN  \A i \in 1..Len(segments) : segments[i] # <<".", ".">>

(***************************************************************************)
(* Properties of path composition.                                         *)
(***************************************************************************)
HasNoDigit(s) == \A i \in 1..Len(s) : s[i] \notin Digits

\* C8: an index of 0 is a present index and gives the prefix '1_' on the
\* leaf; the prefix and its '_' are left out only for an undefined index.
C8_IndexZeroGivesPrefix ==
  composed.pc = "done" =>
    LET unprefixed == compose(composed.rawTitle, composed.extension, Undefined,
                              composed.suffix, composed.policy)
    IN  IF composed.ordinalIndex.present
        THEN /\ PathDirectory(composed.result) = PathDirectory(unprefixed)
             /\ PathLeaf(composed.result) =
                  ExpectedPrefix(composed.ordinalIndex.n) \o PathLeaf(unprefixed)
        ELSE HasNoDigit(composed.result)

C8_Witness ==
  /\ composed.pc = "done"
  /\ composed.ordinalIndex = Index(0)
  /\ composed.policy = "DirectoryStructure"
  /\ composed.rawTitle = <<"a","/","a">>
  /\ composed.result = <<"a","/","1","_","a",".","c">>

C23_MarkerKeepsDirectory ==
  (/\ resolve.pc = "done"
   /\ resolve.iterations > 0
   /\ Contains(resolve.fileName, "/")) =>
    PathDirectory(resolve.uniqueName) = PathDirectory(resolve.fileName)

\* C27: makeUniqueWithArrays does what makeUnique does: either returns a
\* path that is not in the set and that has the directory part in front,
\* the base name next, then '_' and the disambiguator, and the extension
\* last.
C27_SameLayoutAsMakeUnique ==
  (resolve.pc = "done" /\ resolve.iterations > 0) =>
    LET p == makeUniqueParts(resolve.fileName)
    IN  /\ resolve.uniqueName \notin allocated
        /\ startsWith(resolve.uniqueName, p.basePath \o p.name \o <<"_">>)
        /\ endsWith(resolve.uniqueName, p.ext)
        /\ Len(resolve.uniqueName) > Len(resolve.fileName) + 1

(***************************************************************************)
(* One constructFilePath call on sanitized parts of any kind, an empty     *)
(* file name and an empty extension included.                              *)
(***************************************************************************)
ConstructPaths == StringsUpTo({"a", "/"}, MaxTitleLen)
ConstructFilenames == StringsUpTo({"a", "."}, MaxTitleLen)

InitConstruct ==
  /\ constructed \in [path : ConstructPaths, filename : ConstructFilenames,
                      extension : ComposeExtensions,
                      messageIndex : MessageIndexes,
                      useDirectoryStructure : BOOLEAN,
                      result : {<<>>}, pc : {"call"}]
  /\ allocated = {}
  /\ initialNames = {}
  /\ directoryMode = FALSE
  /\ calls = 0
  /\ returned = {}
  /\ last = NoCall
  /\ artifact = NoArtifact
  /\ resolve = NoResolve
  /\ composed = NoComposed
  /\ replay = NoReplay
  /\ sanitizer = NoSanitizer
  /\ lookup = NoLookup
  /\ attempt = NoAttempt
  /\ walk = NoWalk
  /\ log = <<>>

Construct ==
  /\ constructed.pc = "call"
  /\ constructed' =
       [constructed EXCEPT
          !.result = constructFilePath(constructed.path, constructed.filename,
                                       constructed.extension,
                                       constructed.messageIndex,
                                       constructed.useDirectoryStructure),
          !.pc = "done"]
  /\ UNCHANGED <<allocated, directoryMode, initialNames, calls, returned, last,
                 artifact, resolve, composed, replay, sanitizer, lookup, attempt,
                 walk, log>>

NextConstruct == Construct

SpecConstruct == InitConstruct /\ [][NextConstruct]_vars

FlatTitles == { <<"a">>, <<"a","_","1">>, <<"0","_","a">> }

InitFlat ==
  /\ log = <<>>
  /\ allocated = {}
  /\ initialNames = {}
  /\ directoryMode = FALSE
  /\ calls = 0
  /\ returned = {}
  /\ last = NoCall
  /\ artifact = NoArtifact
  /\ resolve = NoResolve
  /\ composed = NoComposed
  /\ replay = NoReplay
  /\ sanitizer = NoSanitizer
  /\ lookup = NoLookup
  /\ attempt = NoAttempt
  /\ constructed = NoConstructed
  /\ walk = NoWalk

\* One pass of the loop body: getUniqueFileName, then zip.file.
FlatAssign(title, language, messageIndex) ==
  /\ Len(log) < MaxFlatCalls
  /\ Name(title, language, messageIndex)
  /\ log' = Append(log,
                   [message |-> 0, depth |-> 0, messageIndex |-> messageIndex,
                    candidate |-> candidateFileName(title, language,
                                                    messageIndex, directoryMode),
                    fileName |-> getUniqueFileName(title, language, messageIndex,
                                                   allocated, directoryMode).fileName])
  /\ UNCHANGED <<artifact, resolve, composed, replay, sanitizer, lookup, attempt,
                 constructed, walk>>

NextFlat ==
  \E title \in FlatTitles, language \in Languages, messageIndex \in MessageIndexes :
    FlatAssign(title, language, messageIndex)

SpecFlat == InitFlat /\ [][NextFlat]_vars

\* C29: in a flat run from an empty set, artifacts of different message
\* indices never collide (their candidates and their paths differ), so a
\* path carries a collision marker only when an earlier artifact of the
\* same index produced the same candidate (same sanitized leaf and
\* extension).
C29_MarkerOnlyForSameLeaf ==
  /\ \A j \in 1..Len(log), k \in 1..Len(log) :
       log[j].messageIndex # log[k].messageIndex =>
         /\ log[j].candidate # log[k].candidate
         /\ log[j].fileName # log[k].fileName
  /\ \A k \in 1..Len(log) :
       log[k].fileName # log[k].candidate =>
         \E j \in 1..(k - 1) :
           /\ log[j].messageIndex = log[k].messageIndex
           /\ log[j].candidate = log[k].candidate

(***************************************************************************)
(* processMessage: the recursive walk over a message and the messages      *)
(* whose parent it is.  A call first names the artifacts of its message,   *)
(* then, unless its depth is above the ceiling, calls itself for every     *)
(* child in payload order and returns the artifact count.  The call stack  *)
(* is explicit: a frame holds the message, the depth, the position in the  *)
(* call (pc) and the next artifact or child to handle.                     *)
(***************************************************************************)
MaxRecursionDepth == 100
DepthWarning == "Maximum recursion depth reached. Stopping message processing."

\* Variant: the ceiling is taken one level too early.
depthExceededOffByOne(depth) == depth >= MaxRecursionDepth

\* Variant: the ceiling is taken one level too late.
depthExceededLate(depth) == depth > MaxRecursionDepth + 1

\* The depth test made before a call descends.
depthExceeded(depth) == depth > MaxRecursionDepth

\* message.sender === "assistant" && message.text
isAssistant(message) == message.sender = "assistant" /\ message.hasText

\* Variant: the children are taken last first.
childMessagesReversed(payload, uuid) ==
  LET ids == [i \in 1..Len(payload) |-> Len(payload) + 1 - i]
  IN  SelectSeq(ids, LAMBDA m : payload[m].parent = uuid)

\* The messages of the payload whose parent_message_uuid is uuid, in
\* payload order.
childMessages(payload, uuid) ==
  LET ids == [i \in 1..Len(payload) |-> i]
  IN  SelectSeq(ids, LAMBDA m : payload[m].parent = uuid)

\* Variant: every message is taken for an assistant message.
ownArtifactsAnySender(message) == message.artifacts

\* The artifacts a call names for its message.
ownArtifacts(message) ==
  IF isAssistant(message) THEN message.artifacts ELSE <<>>

Top == walk.stack[Len(walk.stack)]

\* The stack with its top frame changed, and without it.
WithTop(frame) == [walk.stack EXCEPT ![Len(walk.stack)] = frame]
Popped == SubSeq(walk.stack, 1, Len(walk.stack) - 1)

\* Inputs of the walk.  The uuid of a message is its position in the
\* payload, its index is that position less one, 0 is "no parent".
WalkArtifact(title) == [title |-> title, language |-> JSString(<<"c">>)]
ArtifactLists ==
  { <<WalkArtifact(<<"a">>)>>,
    <<WalkArtifact(<<"a">>), WalkArtifact(<<"b">>), WalkArtifact(<<"a">>)>> }

RECURSIVE ReachesRoot(_, _, _)
ReachesRoot(parents, m, fuel) ==
  \/ m = 1
  \/ /\ fuel > 0
     /\ parents[m] # 0
     /\ ReachesRoot(parents, parents[m], fuel - 1)

\* The parent links of n messages, every message in the subtree of
\* message 1.
ParentLinks(n) ==
  { parents \in [1..n -> 0..n] : \A m \in 1..n : ReachesRoot(parents, m, n) }

\* The senders of n messages, at most one of them not the assistant.
Senders(n) ==
  { [m \in 1..n |-> IF m = u THEN "user" ELSE "assistant"] : u \in 0..n }

\* Payloads of 1..MaxMessages messages.
Payloads ==
  UNION { { [m \in 1..n |-> [sender |-> senders[m], hasText |-> TRUE,
                             artifacts |-> artifacts[m], index |-> m - 1,
                             parent |-> parents[m]]] :
              senders \in Senders(n), artifacts \in [1..n -> ArtifactLists],
              parents \in ParentLinks(n) }
          : n \in 1..MaxMessages }

\* The walk starts at the root (depth 0), at the ceiling or above it.  A
\* walk from depth 0 round a cycle visits every message of the cycle a
\* hundred times: it is made for the message that is its own parent, and
\* the longer cycles are walked from the ceiling, where the same calls are
\* made at depths 100 and 101.
StartDepths == {0, MaxRecursionDepth, MaxRecursionDepth + 1}
FromRoot(payload) == payload[1].parent = 0 \/ Len(payload) = 1

InitWalk ==
  /\ \E payload \in Payloads, startDepth \in StartDepths :
       /\ startDepth = 0 => FromRoot(payload)
       /\ walk = [payload |-> payload, startDepth |-> startDepth,
                  stack |-> <<[message |-> 1, depth |-> startDepth,
                               pc |-> "artifacts", next |-> 1]>>,
                  artifactCount |-> 0,
                  visits |-> <<[message |-> 1, depth |-> startDepth]>>,
                  warnings |-> <<>>, result |-> -1, steps |-> 0, pc |-> "run"]
  /\ directoryMode \in BOOLEAN
  /\ log = <<>>
  /\ allocated = {}
  /\ initialNames = {}
  /\ calls = 0
  /\ returned = {}
  /\ last = NoCall
  /\ artifact = NoArtifact
  /\ resolve = NoResolve
  /\ composed = NoComposed
  /\ replay = NoReplay
  /\ sanitizer = NoSanitizer
  /\ lookup = NoLookup
  /\ attempt = NoAttempt
  /\ constructed = NoConstructed

\* One pass of artifacts.forEach: artifactCount++, getUniqueFileName,
\* zip.file.
AddArtifact ==
  /\ walk.pc = "run"
  /\ Top.pc = "artifacts"
  /\ Top.next <= Len(ownArtifacts(walk.payload[Top.message]))
  /\ LET message == walk.payload[Top.message]
         a == ownArtifacts(message)[Top.next]
     IN  /\ Name(a.title, a.language, message.index)
         /\ log' = Append(log,
                     [message |-> Top.message, depth |-> Top.depth,
                      messageIndex |-> message.index,
                      candidate |-> candidateFileName(a.title, a.language,
                                                      message.index, directoryMode),
                      fileName |-> getUniqueFileName(a.title, a.language,
                                                     message.index, allocated,
                                                     directoryMode).fileName])
  /\ walk' = [walk EXCEPT
                !.artifactCount = walk.artifactCount + 1,
                !.stack = WithTop([Top EXCEPT !.next = Top.next + 1]),
                !.steps = walk.steps + 1]
  /\ UNCHANGED <<artifact, resolve, composed, replay, sanitizer, lookup, attempt,
                 constructed>>

\* The walk after a call has returned: the caller goes on, or the walk is
\* over and the count is the result.
AfterReturn(warnings) ==
  [walk EXCEPT
     !.stack = Popped,
     !.warnings = warnings,
     !.steps = walk.steps + 1,
     !.result = IF Len(walk.stack) = 1 THEN walk.artifactCount ELSE walk.result,
     !.pc = IF Len(walk.stack) = 1 THEN "done" ELSE "run"]

\* The artifacts are done and the depth is above the ceiling: warn and
\* return without looking at the children.
StopAtCeiling ==
  /\ walk.pc = "run"
  /\ Top.pc = "artifacts"
  /\ Top.next > Len(ownArtifacts(walk.payload[Top.message]))
  /\ depthExceeded(Top.depth)
  /\ walk' = AfterReturn(Append(walk.warnings, DepthWarning))
  /\ UNCHANGED <<allocated, directoryMode, initialNames, calls, returned, last,
                 artifact, resolve, composed, replay, sanitizer, lookup, attempt,
                 constructed, log>>

\* The artifacts are done and the depth allows the children.
StartChildren ==
  /\ walk.pc = "run"
  /\ Top.pc = "artifacts"
  /\ Top.next > Len(ownArtifacts(walk.payload[Top.message]))
  /\ ~depthExceeded(Top.depth)
  /\ walk' = [walk EXCEPT
                !.stack = WithTop([Top EXCEPT !.pc = "children", !.next = 1]),
                !.steps = walk.steps + 1]
  /\ UNCHANGED <<allocated, directoryMode, initialNames, calls, returned, last,
                 artifact, resolve, composed, replay, sanitizer, lookup, attempt,
                 constructed, log>>

\* processMessage(child, ..., depth + 1) for the next child.
Descend ==
  /\ walk.pc = "run"
  /\ Top.pc = "children"
  /\ Top.next <= Len(childMessages(walk.payload, Top.message))
  /\ LET child == childMessages(walk.payload, Top.message)[Top.next]
         frame == [message |-> child, depth |-> Top.depth + 1,
                   pc |-> "artifacts", next |-> 1]
     IN  walk' = [walk EXCEPT
                    !.stack = Append(WithTop([Top EXCEPT !.next = Top.next + 1]),
                                     frame),
                    !.visits = Append(walk.visits,
                                      [message |-> child, depth |-> Top.depth + 1]),
                    !.steps = walk.steps + 1]
  /\ UNCHANGED <<allocated, directoryMode, initialNames, calls, returned, last,
                 artifact, resolve, composed, replay, sanitizer, lookup, attempt,
                 constructed, log>>

\* Every child is done: return artifactCount.
Return ==
  /\ walk.pc = "run"
  /\ Top.pc = "children"
  /\ Top.next > Len(childMessages(walk.payload, Top.message))
  /\ walk' = AfterReturn(walk.warnings)
  /\ UNCHANGED <<allocated, directoryMode, initialNames, calls, returned, last,
                 artifact, resolve, composed, replay, sanitizer, lookup, attempt,
                 constructed, log>>

NextWalk == AddArtifact \/ StopAtCeiling \/ StartChildren \/ Descend \/ Return

SpecWalk == InitWalk /\ [][NextWalk]_vars

\* The visits and the frames at a depth above the ceiling.
VisitsAboveCeiling ==
  {i \in DOMAIN walk.visits : walk.visits[i].depth > MaxRecursionDepth}
FramesAboveCeiling ==
  {i \in DOMAIN walk.stack : walk.stack[i].depth > MaxRecursionDepth}
EntriesOf(visit) ==
  {i \in DOMAIN log : log[i].message = visit.message /\ log[i].depth = visit.depth}

\* C21: a call at a depth above the ceiling of 100 logs 'Maximum recursion
\* depth reached. Stopping message processing.' once and never descends,
\* and nothing is rolled back: every entry added so far, the artifacts of
\* the message on which the ceiling was hit included, is in the archive and
\* its name in usedNames.
C21_CeilingKeepsEntries ==
  /\ \A i \in FramesAboveCeiling : walk.stack[i].pc = "artifacts"
  /\ Len(walk.warnings) =
       Cardinality(VisitsAboveCeiling) - Cardinality(FramesAboveCeiling)
  /\ \A i \in DOMAIN walk.warnings :
       walk.warnings[i] =
         "Maximum recursion depth reached. Stopping message processing."
  /\ Len(log) = walk.artifactCount
  /\ \A i \in DOMAIN log : log[i].fileName \in allocated
  /\ walk.pc = "done" =>
       \A i \in VisitsAboveCeiling :
         LET message == walk.payload[walk.visits[i].message]
         IN  Cardinality(EntriesOf(walk.visits[i])) =
               IF message.sender = "assistant" THEN Len(message.artifacts) ELSE 0

\* A walk from the root round a cycle has hit the ceiling, and the entries
\* of the message on which it was hit are in the archive.
C21_Witness ==
  /\ walk.pc = "done"
  /\ walk.startDepth = 0
  /\ walk.warnings # <<>>
  /\ \E i \in DOMAIN log :
       /\ log[i].depth > MaxRecursionDepth
       /\ log[i].fileName \in allocated

\* The most steps one call takes by itself: one for every artifact and
\* every child, one between the two and one to return.
CallSteps(payload) ==
  LET lengths == {Len(payload[m].artifacts) : m \in DOMAIN payload}
      longest == CHOOSE n \in lengths : \A k \in lengths : k <= n
  IN  longest + Len(payload) + 2

RECURSIVE Flatten(_)
Flatten(seqs) ==
  IF seqs = <<>> THEN <<>> ELSE Head(seqs) \o Flatten(Tail(seqs))

\* below[c] is the order of the walk from message c at depth + 1; the
\* orders of the walks at depth are built from it, from the deepest call
\* up to the first (the test of at has the orders of a depth computed
\* before those of the depth above are).
RECURSIVE DiscoveryFrom(_, _, _, _)
DiscoveryFrom(payload, depth, startDepth, below) ==
  LET own(m) == IF payload[m].sender = "assistant"
                  THEN [k \in 1..Len(payload[m].artifacts) |->
                          [message |-> m, depth |-> depth, artifact |-> k]]
                  ELSE <<>>
      at == [m \in 1..Len(payload) |->
               own(m) \o Flatten([c \in 1..Len(payload) |->
                                    IF payload[c].parent = m
                                         /\ depth <= MaxRecursionDepth
                                      THEN below[c] ELSE <<>>])]
  IN  IF depth = startDepth \/ at = <<>> THEN at
      ELSE DiscoveryFrom(payload, depth - 1, startDepth, at)

\* The deepest call of a walk: without a cycle it is no deeper than there
\* are messages, with one it is the first depth above the ceiling.
DeepestCall(payload, startDepth) ==
  LET deepest == IF payload[1].parent = 0
                   THEN startDepth + Len(payload) - 1
                   ELSE MaxRecursionDepth + 1
  IN  IF deepest < startDepth THEN startDepth
      ELSE IF deepest > MaxRecursionDepth + 1 THEN MaxRecursionDepth + 1
      ELSE deepest

DiscoveryOrder(payload, m, depth) ==
  DiscoveryFrom(payload, DeepestCall(payload, depth), depth,
                [c \in 1..Len(payload) |-> <<>>])[m]

\* C25: the archive entries follow message/discovery order: a message's own
\* artifacts in the order of its text, before any artifact of its children,
\* and the children in their discovery order.
C25_EntriesInDiscoveryOrder ==
  LET expected == DiscoveryOrder(walk.payload, 1, walk.startDepth)
  IN  /\ Len(log) <= Len(expected)
      /\ walk.pc = "done" => Len(log) = Len(expected)
      /\ \A i \in DOMAIN log :
           LET message == walk.payload[expected[i].message]
               a == message.artifacts[expected[i].artifact]
           IN  /\ log[i].message = expected[i].message
               /\ log[i].depth = expected[i].depth
               /\ log[i].candidate =
                    candidateFileName(a.title, a.language, message.index,
                                      directoryMode)

\* A parent with three artifacts and two children, flat: the entries are
\* the parent's three ('1_'), then the first child's ('2_'), then the
\* second's ('3_').
C25_Witness ==
  /\ walk.pc = "done"
  /\ ~directoryMode
  /\ Len(walk.payload) = 3
  /\ walk.payload[2].parent = 1 /\ walk.payload[3].parent = 1
  /\ Len(log) = 5
  /\ [i \in 1..5 |-> log[i].message] = <<1, 1, 1, 2, 3>>
  /\ [i \in 1..5 |-> log[i].fileName[1]] = <<"1", "1", "1", "2", "3">>
  /\ log[1].candidate # log[2].candidate

\* C26: started with artifactCount 0, processMessage returns the number of
\* zip.file calls made for the message and everything below it.  A message
\* whose sender is not the assistant adds no entry; when it has no children
\* either, the archive and usedNames are as they were and the result is 0.
C26_ResultCountsEntries ==
  /\ walk.artifactCount = Len(log)
  /\ \A i \in DOMAIN log : walk.payload[log[i].message].sender = "assistant"
  /\ walk.pc = "done" =>
       /\ walk.result = Len(log)
       /\ (/\ walk.payload[1].sender # "assistant"
           /\ \A m \in DOMAIN walk.payload : walk.payload[m].parent # 1)
          => (log = <<>> /\ allocated = {} /\ walk.result = 0)

\* A finished walk over an assistant message, a user message below it and
\* an assistant message below that one: the result counts the entries of
\* the first and the third.
C26_Witness ==
  /\ walk.pc = "done"
  /\ Len(walk.payload) = 3
  /\ walk.payload[2].sender = "user" /\ walk.payload[2].parent = 1
  /\ walk.payload[3].parent = 2
  /\ walk.result = Len(walk.payload[1].artifacts) + Len(walk.payload[3].artifacts)
  /\ walk.result = Len(log)

\* C28: within one archive build no zip.file call of the walk uses the
\* path of an earlier one, so no entry is overwritten, also when a message
\* is visited more than once or artifacts share title, language and message
\* index.
C28_NoPathReused ==
  /\ Cardinality({log[i].fileName : i \in DOMAIN log}) = Len(log)
  /\ Cardinality(allocated) = Len(log)

\* A message was visited twice, and one of its visits named two artifacts
\* of the same title and language: the entries of the same candidate have
\* three different paths.
C28_Witness ==
  \E i, j, k \in DOMAIN log :
    /\ i < j /\ j < k
    /\ log[i].message = log[j].message /\ log[i].depth = log[j].depth
    /\ log[k].message = log[i].message /\ log[k].depth # log[i].depth
    /\ log[i].candidate = log[j].candidate
    /\ log[i].candidate = log[k].candidate
    /\ Cardinality({log[i].fileName, log[j].fileName, log[k].fileName}) = 3

====
